---- MODULE Spec2Model ----
(***************************************************************************)
(* A model of the SCSU Decoder (package scsu, decoder source file).        *)
(*                                                                         *)
(* The state is one Decoder reading one byte source: the embedded window   *)
(* state (window, dynamicOffset), unicodeMode, bytesRead, and the source   *)
(* (its bytes, how far it has been read, and what it answers once it is    *)
(* exhausted).  ReadRune and ReadString are the two operations; each       *)
(* action is one whole call.  The functions of the source file are         *)
(* operators over a decoder record d, computed as the code computes them.  *)
(***************************************************************************)
EXTENDS Integers, Sequences, FiniteSets, TLC

(***************************************************************************)
(* Command bytes and window constants.  Their declarations are not part of *)
(* the checked-in files; the values are those of the SCSU standard         *)
(* (UTS #6) that the package implements, and the window constants also     *)
(* follow from the documentation of defineWindow.                          *)
(***************************************************************************)
SQ0 == 1
\* 0x01: quote from window pair 0 (SQ1..SQ7 follow)
SQ7 == 8
\* 0x08
SDX == 11
\* 0x0B: define extended window
Srs == 12
\* 0x0C: reserved
SQU == 14
\* 0x0E: quote a 16-bit unit
SCU == 15
\* 0x0F: change to unicode mode
SC0 == 16
\* 0x10: select window 0 (SC1..SC7 follow)
SC7 == 23
\* 0x17
SD0 == 24
\* 0x18: define window 0 (SD1..SD7 follow)
SD7 == 31
\* 0x1F
UC0 == 224
\* 0xE0: unicode mode, select window 0 (UC1..UC7 follow)
UC7 == 231
\* 0xE7
UD0 == 232
\* 0xE8: unicode mode, define window 0 (UD1..UD7 follow)
UD7 == 239
\* 0xEF
UQU == 240
\* 0xF0: unicode mode, quote a 16-bit unit
UDX == 241
\* 0xF1: unicode mode, define extended window
gapThreshold == 104
\* 0x68
gapOffset == 44032
\* 0xAC00
reservedStart == 168
\* 0xA8
fixedThreshold == 249
\* 0xF9

\* static window offsets, indexed 0..7
staticOffset ==
    [i \in 0..7 |-> <<0, 128, 256, 768, 8192, 8320, 8448, 12288>>[i + 1]]

\* dynamic window offsets after init(), indexed 0..7
initialDynamicOffset ==
    [i \in 0..7 |-> <<128, 192, 1024, 1536, 2304, 12352, 12448, 65280>>[i + 1]]

\* fixed offsets for the offset bytes 0xF9..0xFF, indexed 0..6
fixedOffset ==
    [i \in 0..6 |-> <<192, 592, 880, 1328, 12352, 12448, 65376>>[i + 1]]

(***************************************************************************)
(* Bounds of the model.                                                    *)
(***************************************************************************)
MaxConstructs == 2
MaxChars == 2

VARIABLES
    input,          \* the bytes the source holds (a sequence of 0..255)
    tail,           \* what the source's ReadByte answers once exhausted
    pos,            \* how many bytes have been taken from the source
    window,         \* scsu.window
    dynamicOffset,  \* scsu.dynamicOffset
    unicodeMode,    \* Decoder.unicodeMode
    bytesRead,      \* Decoder.bytesRead
    op,             \* the last call: "none", "ReadRune" or "ReadString"
    r,              \* rune returned by the last ReadRune
    size,           \* size returned by the last ReadRune
    str,            \* string returned by the last ReadString (its runes)
    err,            \* error returned by the last call ("nil": none)
    pre,            \* the decoder and source as they were when the last call began
    sizeSum,        \* sum of the sizes all ReadRune calls returned
    fatal,          \* an earlier ReadRune returned ErrIllegalInput or an offset error
    strBytes,       \* bytes all ReadString calls took from the source
    decoded,        \* the runes readRune returned to the last ReadString, as returned
    loops,          \* how often the last call went round each of its loops
    framed,         \* the bytes the last call took, cut into the wire format's constructs
    src             \* the scalar values the input was encoded from (round trip)

vars == <<input, tail, pos, window, dynamicOffset, unicodeMode, bytesRead,
          op, r, size, str, err, pre, sizeSum, fatal, strBytes, decoded, loops, framed, src>>

(***************************************************************************)
(* Errors.  "nil" is no error; "panic" is a run-time panic of the call.    *)
(***************************************************************************)
ErrIllegalInput == "illegal input"
EOF == "EOF"
ErrUnexpectedEOF == "unexpected EOF"
ErrSource == "source error"
Panic == "panic"

\* fmt.Errorf("offset = %d", offset)
errOffset(offset) == "offset = " \o ToString(offset)

\* the decoder and the source as one record, threaded through a call; nExpand,
\* nReadRune and nReadString count the iterations the call makes of the loops
\* of expandSingleByte / expandUnicode, of readRune and of ReadString
Dec == [window |-> window, dynamicOffset |-> dynamicOffset,
        unicodeMode |-> unicodeMode, bytesRead |-> bytesRead, pos |-> pos,
        nExpand |-> 0, nReadRune |-> 0, nReadString |-> 0]

\* d.init(): window 0 active, the default dynamic offsets
initWindow == 0

\* brd.ReadByte() of a buffer: the next byte, or the source's answer at its end
srcReadByte(d) ==
    IF d.pos < Len(input)
    THEN [b |-> input[d.pos + 1], err |-> "nil", d |-> [d EXCEPT !.pos = @ + 1]]
    ELSE [b |-> 0, err |-> tail, d |-> d]

\* mutant: the byte is counted although the source gave none
readByteCount_always(x) == [x EXCEPT !.d = [x.d EXCEPT !.bytesRead = @ + 1]]

\* readByte after the source answered x: count the byte when there is one
readByteCount(x) ==
    IF x.err = "nil"
    THEN [x EXCEPT !.d = [x.d EXCEPT !.bytesRead = @ + 1]]
    ELSE x

readByte(d) == readByteCount(srcReadByte(d))

\* mutant: the gap starts one offset byte late
defineWindow_gapInclusive(d, iWindow, offset) ==
    IF offset = 0 THEN [err |-> ErrIllegalInput, d |-> d]
    ELSE IF offset <= gapThreshold
    THEN [err |-> "nil",
          d |-> [d EXCEPT !.dynamicOffset[iWindow] = offset * 128,
                          !.window = iWindow]]
    ELSE IF offset < reservedStart
    THEN [err |-> "nil",
          d |-> [d EXCEPT !.dynamicOffset[iWindow] = (offset * 128) + gapOffset,
                          !.window = iWindow]]
    ELSE IF offset < fixedThreshold
    THEN [err |-> errOffset(offset), d |-> d]
    ELSE [err |-> "nil",
          d |-> [d EXCEPT !.dynamicOffset[iWindow] = fixedOffset[offset - fixedThreshold],
                          !.window = iWindow]]

defineWindow(d, iWindow, offset) ==
    IF offset = 0 THEN [err |-> ErrIllegalInput, d |-> d]
    ELSE IF iWindow \notin DOMAIN d.dynamicOffset THEN [err |-> Panic, d |-> d]
    ELSE IF offset < gapThreshold
    THEN [err |-> "nil",
          d |-> [d EXCEPT !.dynamicOffset[iWindow] = offset * 128,
                          !.window = iWindow]]
    ELSE IF offset < reservedStart
    THEN [err |-> "nil",
          d |-> [d EXCEPT !.dynamicOffset[iWindow] = (offset * 128) + gapOffset,
                          !.window = iWindow]]
    ELSE IF offset < fixedThreshold
    THEN [err |-> errOffset(offset), d |-> d]
    ELSE IF (offset - fixedThreshold) \notin DOMAIN fixedOffset
    THEN [err |-> Panic, d |-> d]
    ELSE [err |-> "nil",
          d |-> [d EXCEPT !.dynamicOffset[iWindow] = fixedOffset[offset - fixedThreshold],
                          !.window = iWindow]]

\* mutant: the window index is taken from the top four bits
defineExtendedWindow_shift12(d, chOffset) ==
    LET w == chOffset \div 4096 IN
    IF w \notin DOMAIN d.dynamicOffset THEN [err |-> Panic, d |-> d]
    ELSE [err |-> "nil",
          d |-> [d EXCEPT !.dynamicOffset[w] = ((chOffset % 8192) * 128) + 65536,
                          !.window = w]]

\* mutant: the offset is taken from the low twelve bits
defineExtendedWindow_mask12(d, chOffset) ==
    LET w == chOffset \div 8192 IN
    IF w \notin DOMAIN d.dynamicOffset THEN [err |-> Panic, d |-> d]
    ELSE [err |-> "nil",
          d |-> [d EXCEPT !.dynamicOffset[w] = ((chOffset % 4096) * 128) + 65536,
                          !.window = w]]

defineExtendedWindow(d, chOffset) ==
    LET w == chOffset \div 8192 IN
    IF w \notin DOMAIN d.dynamicOffset THEN [err |-> Panic, d |-> d]
    ELSE [err |-> "nil",
          d |-> [d EXCEPT !.dynamicOffset[w] = ((chOffset % 8192) * 128) + 65536,
                          !.window = w]]

\* mutant: io.EOF is passed on as it is
unexpectedEOF_same(e) == e

unexpectedEOF(e) == IF e = EOF THEN ErrUnexpectedEOF ELSE e

\* mutant: the two bytes are taken in the wrong order
uint16FromTwoBytes_swapped(hi, lo) == (lo * 256 + hi) % 65536

uint16FromTwoBytes(hi, lo) == (hi * 256 + lo) % 65536

\* readUint16 after its second byte was read as x2, b1 being the first
readUint16Low(b1, x2) ==
    IF x2.err # "nil" THEN [v |-> 0, err |-> unexpectedEOF(x2.err), d |-> x2.d]
    ELSE [v |-> uint16FromTwoBytes(b1, x2.b), err |-> "nil", d |-> x2.d]

\* readUint16 after its first byte was read as x1
readUint16High(x1) ==
    IF x1.err # "nil" THEN [v |-> 0, err |-> unexpectedEOF(x1.err), d |-> x1.d]
    ELSE readUint16Low(x1.b, readByte(x1.d))

readUint16(d) == readUint16High(readByte(d))

\* utf16.IsSurrogate
IsSurrogate(c) == 55296 <= c /\ c < 57344

\* utf16.DecodeRune: the pair's scalar value, or U+FFFD when it is no pair
DecodeRune(r1, r2) ==
    IF 55296 <= r1 /\ r1 < 56320 /\ 56320 <= r2 /\ r2 < 57344
    THEN (r1 - 55296) * 1024 + (r2 - 56320) + 65536
    ELSE 65533

\* mutant: UCn changes the mode and leaves the active window as it was
unicodeSelect_keepsWindow(x) ==
    [r |-> -1, err |-> "nil", d |-> [x.d EXCEPT !.unicodeMode = FALSE]]

\* UC0..UC7: select window n and change to single-byte mode
unicodeSelect(x) ==
    [r |-> -1, err |-> "nil",
     d |-> [x.d EXCEPT !.window = x.b - UC0, !.unicodeMode = FALSE]]

\* UD0..UD7 after its offset byte was read as x1
unicodeDefineOffset(b, x1) ==
    IF x1.err # "nil" THEN [r |-> 0, err |-> unexpectedEOF(x1.err), d |-> x1.d]
    ELSE [r |-> -1] @@ defineWindow([x1.d EXCEPT !.unicodeMode = FALSE], b - UD0, x1.b)

\* UD0..UD7: define window n and change to single-byte mode
unicodeDefine(x) == unicodeDefineOffset(x.b, readByte(x.d))

\* UDX after defineExtendedWindow returned w
unicodeDefinedExtended(w) ==
    IF w.err # "nil" THEN [r |-> 0, err |-> w.err, d |-> w.d]
    ELSE [r |-> -1, err |-> "nil", d |-> [w.d EXCEPT !.unicodeMode = FALSE]]

\* UDX after its descriptor was read as c
unicodeDefineDescriptor(c) ==
    IF c.err # "nil" THEN [r |-> 0, err |-> unexpectedEOF(c.err), d |-> c.d]
    ELSE unicodeDefinedExtended(defineExtendedWindow(c.d, c.v))

\* UDX: define an extended window and change to single-byte mode
unicodeDefineExtended(x) == unicodeDefineDescriptor(readUint16(x.d))

\* SQU and UQU after the quoted unit was read as c
quotedUnit(c) ==
    IF c.err # "nil" THEN [r |-> 0, err |-> c.err, d |-> c.d]
    ELSE [r |-> c.v, err |-> "nil", d |-> c.d]

\* UQU: one quoted 16-bit unit
unicodeQuote(x) == quotedUnit(readUint16(x.d))

\* a surrogate unit ch after the unit that follows it was read as c
unicodeSurrogate(ch, c) ==
    IF c.err # "nil" THEN [r |-> 0, err |-> unexpectedEOF(c.err), d |-> c.d]
    ELSE IF ~IsSurrogate(c.v) THEN [r |-> 0, err |-> ErrIllegalInput, d |-> c.d]
    ELSE [r |-> DecodeRune(ch, c.v), err |-> "nil", d |-> c.d]

\* a 16-bit unit ch, read up to the decoder d
unicodeChar(ch, d) ==
    IF IsSurrogate(ch) THEN unicodeSurrogate(ch, readUint16(d))
    ELSE [r |-> ch, err |-> "nil", d |-> d]

\* a 16-bit unit whose first byte is b, after its second byte was read as x1
unicodeUnitLow(b, x1) ==
    IF x1.err # "nil" THEN [r |-> 0, err |-> unexpectedEOF(x1.err), d |-> x1.d]
    ELSE unicodeChar(uint16FromTwoBytes(b, x1.b), x1.d)

\* any other byte: the first byte of a 16-bit unit
unicodeUnit(x) == unicodeUnitLow(x.b, readByte(x.d))

\* expandUnicode after its first byte was read as x
unicodeCommand(x) ==
    IF x.err # "nil" THEN [r |-> 0, err |-> x.err, d |-> x.d]
    ELSE IF x.b >= UC0 /\ x.b <= UC7 THEN unicodeSelect(x)
    ELSE IF x.b >= UD0 /\ x.b <= UD7 THEN unicodeDefine(x)
    ELSE IF x.b = UDX THEN unicodeDefineExtended(x)
    ELSE IF x.b = UQU THEN unicodeQuote(x)
    ELSE unicodeUnit(x)

\* one iteration of expandUnicode's loop (every path of it returns)
expandUnicode(d) == unicodeCommand(readByte([d EXCEPT !.nExpand = @ + 1]))

\* the default case of expandSingleByte's switch: output b as a character
outputChar(d, b, staticWindow, dynamicWindow) ==
    IF b < 128
    THEN IF staticWindow \notin DOMAIN staticOffset THEN [r |-> 0, err |-> Panic, d |-> d]
         ELSE [r |-> b + staticOffset[staticWindow], err |-> "nil", d |-> d]
    ELSE IF dynamicWindow \notin DOMAIN d.dynamicOffset THEN [r |-> 0, err |-> Panic, d |-> d]
         ELSE [r |-> (b - 128) + d.dynamicOffset[dynamicWindow], err |-> "nil", d |-> d]

RECURSIVE expandSingleByte(_)

\* mutant: the quote also makes window n the active one
singleQuoted_selects(b, x1) ==
    IF x1.err # "nil" THEN [r |-> 0, err |-> unexpectedEOF(x1.err), d |-> x1.d]
    ELSE outputChar([x1.d EXCEPT !.window = b - SQ0], x1.b, b - SQ0, b - SQ0)

\* SQ0..SQ7 after the quoted byte was read as x1
singleQuoted(b, x1) ==
    IF x1.err # "nil" THEN [r |-> 0, err |-> unexpectedEOF(x1.err), d |-> x1.d]
    ELSE outputChar(x1.d, x1.b, b - SQ0, b - SQ0)

\* SQ0..SQ7: quote one byte from window pair n
singleQuote(x) == singleQuoted(x.b, readByte(x.d))

\* SDX and SDn after the window was defined with outcome w: next iteration
singleDefined(w) ==
    IF w.err # "nil" THEN [r |-> 0, err |-> w.err, d |-> w.d]
    ELSE expandSingleByte(w.d)

\* SDX after its descriptor was read as c
singleDefineDescriptor(c) ==
    IF c.err # "nil" THEN [r |-> 0, err |-> unexpectedEOF(c.err), d |-> c.d]
    ELSE singleDefined(defineExtendedWindow(c.d, c.v))

\* SDX: define an extended window
singleDefineExtended(x) == singleDefineDescriptor(readUint16(x.d))

\* SD0..SD7 after its offset byte was read as x1
singleDefineOffset(b, x1) ==
    IF x1.err # "nil" THEN [r |-> 0, err |-> unexpectedEOF(x1.err), d |-> x1.d]
    ELSE singleDefined(defineWindow(x1.d, b - SD0, x1.b))

\* SD0..SD7: define window n
singleDefine(x) == singleDefineOffset(x.b, readByte(x.d))

\* SC0..SC7: select window n, next iteration
singleSelect(x) == expandSingleByte([x.d EXCEPT !.window = x.b - SC0])

\* SCU: change to unicode mode
singleToUnicode(x) == [r |-> -1, err |-> "nil", d |-> [x.d EXCEPT !.unicodeMode = TRUE]]

\* SQU: one quoted 16-bit unit
singleQuoteUnicode(x) == quotedUnit(readUint16(x.d))

\* mutant: a low data byte goes through the static window of the active index
singleData_activeStatic(x) == outputChar(x.d, x.b, x.d.window, x.d.window)

\* any other byte: output it through static window 0 or the active window
singleData(x) == outputChar(x.d, x.b, 0, x.d.window)

\* mutant: Srs is output like a data byte
singleReserved_asData(x) == singleData(x)

\* Srs: the reserved byte
singleReserved(x) == [r |-> 0, err |-> ErrIllegalInput, d |-> x.d]

\* expandSingleByte after its first byte was read as x
singleCommand(x) ==
    IF x.err # "nil" THEN [r |-> 0, err |-> x.err, d |-> x.d]
    ELSE IF x.b >= SQ0 /\ x.b <= SQ7 THEN singleQuote(x)
    ELSE IF x.b = SDX THEN singleDefineExtended(x)
    ELSE IF x.b >= SD0 /\ x.b <= SD7 THEN singleDefine(x)
    ELSE IF x.b >= SC0 /\ x.b <= SC7 THEN singleSelect(x)
    ELSE IF x.b = SCU THEN singleToUnicode(x)
    ELSE IF x.b = SQU THEN singleQuoteUnicode(x)
    ELSE IF x.b = Srs THEN singleReserved(x)
    ELSE singleData(x)

\* one iteration of expandSingleByte's loop
expandSingleByte(d) == singleCommand(readByte([d EXCEPT !.nExpand = @ + 1]))

RECURSIVE readRune(_)
\* mutant: the value 0 is taken for 'no output yet' as well
readRuneLoop_zeroSentinel(x) ==
    IF x.err # "nil" THEN [r |-> 0, err |-> x.err, d |-> x.d]
    ELSE IF x.r = -1 \/ x.r = 0 THEN readRune(x.d)
    ELSE x

\* the body of readRune's loop, x being what the expand call returned
readRuneLoop(x) ==
    IF x.err # "nil" THEN [r |-> 0, err |-> x.err, d |-> x.d]
    ELSE IF x.r = -1 THEN readRune(x.d)
    ELSE x

\* the expand call of one iteration of readRune's loop
readRuneExpand(d) == IF d.unicodeMode THEN expandUnicode(d) ELSE expandSingleByte(d)

readRune(d) == readRuneLoop(readRuneExpand([d EXCEPT !.nReadRune = @ + 1]))

\* strings.Builder.WriteRune: an invalid rune is written as U+FFFD
WriteRune(sb, c) ==
    IF c < 0 \/ c > 1114111 \/ IsSurrogate(c) THEN Append(sb, 65533) ELSE Append(sb, c)

RECURSIVE readString(_, _, _)
\* mutant: io.EOF is returned like any other error
readStringLoop_eofIsError(x, sb, vals) ==
    IF x.err # "nil" THEN [s |-> <<>>, err |-> x.err, d |-> x.d, vals |-> vals]
    ELSE readString(x.d, WriteRune(sb, x.r), Append(vals, x.r))

\* mutant: on an error the string built so far is returned with it
readStringLoop_partial(x, sb, vals) ==
    IF x.err # "nil"
    THEN IF x.err = EOF THEN [s |-> sb, err |-> "nil", d |-> x.d, vals |-> vals]
         ELSE [s |-> sb, err |-> x.err, d |-> x.d, vals |-> vals]
    ELSE readString(x.d, WriteRune(sb, x.r), Append(vals, x.r))

\* mutant: a failed read of the source is tried again, twice
readStringLoop_retries(x, sb, vals) ==
    IF x.err # "nil"
    THEN IF x.err = EOF THEN [s |-> sb, err |-> "nil", d |-> x.d, vals |-> vals]
         ELSE IF x.err = ErrSource /\ x.d.nReadString < 3 THEN readString(x.d, sb, vals)
         ELSE [s |-> <<>>, err |-> x.err, d |-> x.d, vals |-> vals]
    ELSE readString(x.d, WriteRune(sb, x.r), Append(vals, x.r))

\* the body of ReadString's loop, x being what readRune returned; vals records
\* the runes as readRune returned them
readStringLoop(x, sb, vals) ==
    IF x.err # "nil"
    THEN IF x.err = EOF THEN [s |-> sb, err |-> "nil", d |-> x.d, vals |-> vals]
         ELSE [s |-> <<>>, err |-> x.err, d |-> x.d, vals |-> vals]
    ELSE readString(x.d, WriteRune(sb, x.r), Append(vals, x.r))

\* ReadString from the decoder d on, sb being the strings.Builder
readString(d, sb, vals) ==
    readStringLoop(readRune([d EXCEPT !.nReadString = @ + 1]), sb, vals)

\* NewDecoder on the same source, nothing read yet
NewDecoder ==
    [window |-> initWindow, dynamicOffset |-> initialDynamicOffset,
     unicodeMode |-> FALSE, bytesRead |-> 0, pos |-> 0,
     nExpand |-> 0, nReadRune |-> 0, nReadString |-> 0]

RECURSIVE ReadRunes(_, _)
\* a caller that calls ReadRune until it returns an error, x being what the
\* last call returned and vals the runes returned so far
ReadRunesNext(x, vals) ==
    IF x.err # "nil" THEN [vals |-> vals, err |-> x.err, d |-> x.d]
    ELSE ReadRunes(x.d, Append(vals, x.r))

ReadRunes(d, vals) == ReadRunesNext(readRune(d), vals)

(***************************************************************************)
(* The inputs.  A source holds the concatenation of at most MaxConstructs  *)
(* pieces; a piece is one byte of Alphabet or one of the longer            *)
(* constructs of Pieces, so that whole, truncated and misplaced constructs *)
(* all occur.                                                              *)
(***************************************************************************)
Alphabet ==
    { 0, 65, 127, 128, 255,            \* plain data bytes
      SQ0, SQ0 + 2, SQ7, SDX, Srs, SQU, SCU, SC0 + 1, SC7, SD0, SD0 + 2, SD7,
      UC0, UC0 + 3, UC7, UD0 + 1, UD7, UQU, UDX,
      216, 220,                        \* first byte of a high / low surrogate
      gapThreshold, reservedStart - 1, reservedStart, fixedThreshold - 1,
      fixedThreshold }

Pieces ==
    { <<b>> : b \in Alphabet } \cup
    { <<SD0 + 2, 1>>, <<SD7, 255>>, <<SDX, 32, 0>>, <<SDX, 255, 255>>,
      <<SQU, 216, 0>>, <<SQU, 0, 65>>, <<SQU, 65>>,
      <<SCU, 216, 0>>, <<SCU, 220, 0>>, <<SCU, 216, 0, 220>>,
      <<216, 0, 220, 0>>, <<219, 255, 223, 255>>,
      <<SCU, UD0 + 1, 0>>, <<SCU, UD0 + 1, 200>>, <<SCU, UD0 + 1>>,
      <<SCU, UDX, 255, 255>>, <<SCU, UDX, 255>>,
      <<SCU, UQU, 216, 0>>, <<SCU, UQU, 216>>, <<SCU, 78, 45>>, <<SCU, 78>> }

RECURSIVE Flatten(_)
Flatten(ps) == IF ps = <<>> THEN <<>> ELSE Head(ps) \o Flatten(Tail(ps))

Inputs ==
    { Flatten(ps) : ps \in UNION { [1..n -> Pieces] : n \in 0..MaxConstructs } }

\* the decoder and source at the start of a call, and whether an earlier
\* ReadRune had failed on illegal input
Snapshot ==
    [window |-> window, dynamicOffset |-> dynamicOffset, unicodeMode |-> unicodeMode,
     bytesRead |-> bytesRead, pos |-> pos, fatal |-> fatal]

\* every window definition, in single-byte and in unicode mode, with every offset byte
DefineInputs ==
    { <<SD0 + n, b>> : n \in 0..7, b \in 0..255 } \cup
    { <<SCU, UD0 + n, b>> : n \in 0..7, b \in 0..255 }

\* every quote SQn v, first of all and after window 3 was redefined and
\* window w selected, each followed by a plain high byte
QuoteInputs ==
    { <<SQ0 + n, v, 200>> : n \in 0..7, v \in 0..255 } \cup
    { <<SD0 + 3, 2, SC0 + w, SQ0 + n, v, 200>> : w \in {0, 3, 6}, n \in 0..7, v \in 0..255 }

\* extended definitions, each followed by a plain high byte: SDX with every
\* descriptor, UDX with every high byte of the descriptor
ExtendedInputs ==
    { <<SDX, hi, lo, 255>> : hi \in 0..255, lo \in 0..255 } \cup
    { <<SCU, UDX, hi, lo, 128>> : hi \in 0..255, lo \in {0, 1, 127, 128, 255} } \cup
    { <<SCU, UDX, 255, lo, 255>> : lo \in 0..255 }

\* window commands and other constructs that may precede a plain data byte
Preludes ==
    { <<>>, <<SC0 + 5>>, <<SD0 + 5, 2>>, <<SD0 + 1, 250>>, <<SDX, 160, 1>>,
      <<SQ0 + 5, 200>>, <<SCU, UC0 + 1>>, <<SCU, UD0 + 5, gapThreshold>>,
      <<SCU, UDX, 32, 0>>, <<SCU, 0, 65, UC0 + 5>> }

\* every plain data byte of single-byte mode after two of the preludes
PlainInputs ==
    { p \o q \o <<b>> : p \in Preludes, q \in Preludes,
                        b \in {0, 9, 10, 13} \cup (32..255) }

(***************************************************************************)
(* The Encoder.  Its source file is not among the checked-in files; it is  *)
(* modelled from the specification's design-level policy (section 4.3):    *)
(* it keeps the decoder's window state and, for each scalar value, emits   *)
(* any of the representations the protocol (section 4.2, section 3) gives  *)
(* that value in the current state.  Encodings(s) is every byte stream     *)
(* such an encoder may produce for s.                                      *)
(***************************************************************************)
\* the scalar values strings are made of
Scalars == { 12, 65, 233, 1040, 12354, 20013, 57344, 65536, 1114111 }

\* the windows the encoder selects or redefines
EncoderSlots == { 0, 7 }

\* the base offset an offset byte b stands for (section 3)
offsetOf(b) ==
    IF b < gapThreshold THEN b * 128
    ELSE IF b < reservedStart THEN b * 128 + gapOffset
    ELSE fixedOffset[b - fixedThreshold]

\* the legal offset bytes whose window holds c
offsetBytesFor(c) ==
    { b \in 1..255 : /\ ~(reservedStart <= b /\ b < fixedThreshold)
                     /\ offsetOf(b) <= c /\ c < offsetOf(b) + 128 }

\* a byte below 0x80 that is no command byte in single-byte mode
isPlain(c) == c \in {0, 9, 10, 13} \/ (32 <= c /\ c < 128)

encNew == [uni |-> FALSE, window |-> initWindow, dyn |-> initialDynamicOffset]

\* S when cond holds, else nothing
when(cond, S) == IF cond THEN S ELSE {}

\* the descriptor that puts window n where the supplementary value c is
extDescriptor(n, c) == n * 8192 + ((c - 65536) \div 128)

\* the two surrogate units of the supplementary value c
highUnit(c) == 55296 + ((c - 65536) \div 1024)
lowUnit(c) == 56320 + ((c - 65536) % 1024)

inWindow(base, c) == base <= c /\ c < base + 128

\* c as one value in single-byte mode, without a change of state
singleEmit(st, c) ==
    when(isPlain(c), { [bytes |-> <<c>>, st |-> st] })
    \cup when(inWindow(st.dyn[st.window], c),
              { [bytes |-> <<c - st.dyn[st.window] + 128>>, st |-> st] })
    \cup { [bytes |-> <<SQ0 + n, c - staticOffset[n]>>, st |-> st] :
              n \in { n \in 0..7 : inWindow(staticOffset[n], c) } }
    \cup { [bytes |-> <<SQ0 + n, c - st.dyn[n] + 128>>, st |-> st] :
              n \in { n \in 0..7 : inWindow(st.dyn[n], c) } }
    \cup when(c < 65536, { [bytes |-> <<SQU, c \div 256, c % 256>>, st |-> st] })

\* the state-only commands of single-byte mode that bring c into the active window
singlePrefix(st, c) ==
    { [bytes |-> <<>>, st |-> st] }
    \cup { [bytes |-> <<SC0 + n>>, st |-> [st EXCEPT !.window = n]] :
              n \in { n \in EncoderSlots : inWindow(st.dyn[n], c) } }
    \cup { [bytes |-> <<SD0 + nb[1], nb[2]>>,
            st |-> [st EXCEPT !.window = nb[1], !.dyn[nb[1]] = offsetOf(nb[2])]] :
              nb \in EncoderSlots \X offsetBytesFor(c) }
    \cup { [bytes |-> <<SDX, extDescriptor(n, c) \div 256, extDescriptor(n, c) % 256>>,
            st |-> [st EXCEPT !.window = n,
                              !.dyn[n] = ((extDescriptor(n, c) % 8192) * 128) + 65536]] :
              n \in when(c >= 65536, EncoderSlots) }

\* c as one value in unicode mode, without a change of state
unicodeEmit(st, c) ==
    IF c >= 65536
    THEN { [bytes |-> << highUnit(c) \div 256, highUnit(c) % 256,
                         lowUnit(c) \div 256, lowUnit(c) % 256 >>, st |-> st] }
    ELSE { [bytes |-> <<UQU, c \div 256, c % 256>>, st |-> st] }
         \cup when((c \div 256) < UC0 \/ (c \div 256) > 242,
                   { [bytes |-> <<c \div 256, c % 256>>, st |-> st] })

\* the commands of unicode mode that change to single-byte mode with c in the active window
unicodePrefix(st, c) ==
    { [bytes |-> <<UC0 + n>>, st |-> [st EXCEPT !.uni = FALSE, !.window = n]] :
              n \in { n \in EncoderSlots : isPlain(c) \/ inWindow(st.dyn[n], c) } }
    \cup { [bytes |-> <<UD0 + nb[1], nb[2]>>,
            st |-> [st EXCEPT !.uni = FALSE, !.window = nb[1], !.dyn[nb[1]] = offsetOf(nb[2])]] :
              nb \in EncoderSlots \X offsetBytesFor(c) }
    \cup { [bytes |-> <<UDX, extDescriptor(n, c) \div 256, extDescriptor(n, c) % 256>>,
            st |-> [st EXCEPT !.uni = FALSE, !.window = n,
                              !.dyn[n] = ((extDescriptor(n, c) % 8192) * 128) + 65536]] :
              n \in when(c >= 65536, EncoderSlots) }

\* a prefix followed by one of the emissions of E
prefixed(pfx, E) == { [bytes |-> pfx.bytes \o e.bytes, st |-> e.st] : e \in E }

\* every way to encode the one value c in state st
encodeRune(st, c) ==
    IF st.uni
    THEN unicodeEmit(st, c)
         \cup UNION { prefixed(pfx, singleEmit(pfx.st, c)) : pfx \in unicodePrefix(st, c) }
    ELSE UNION { prefixed(pfx, singleEmit(pfx.st, c)) : pfx \in singlePrefix(st, c) }
         \cup prefixed([bytes |-> <<SCU>>], unicodeEmit([st EXCEPT !.uni = TRUE], c))

\* every byte stream the encoder may produce for s from state st on
RECURSIVE encodeFrom(_, _)
encodeFrom(st, s) ==
    IF s = <<>> THEN { <<>> }
    ELSE UNION { { e.bytes \o rest : rest \in encodeFrom(e.st, Tail(s)) } :
                 e \in encodeRune(st, Head(s)) }

Encodings(s) == encodeFrom(encNew, s)

\* the well-formed strings of at most MaxChars scalar values
Strings == UNION { [1..n -> Scalars] : n \in 0..MaxChars }

\* a new Decoder on a source that holds one of the inputs of S
InitWith(S) ==
    /\ input \in S
    /\ tail \in {EOF, ErrSource}
    /\ pos = 0
    /\ window = initWindow
    /\ dynamicOffset = initialDynamicOffset
    /\ unicodeMode = FALSE
    /\ bytesRead = 0
    /\ op = "none"
    /\ r = 0
    /\ size = 0
    /\ str = <<>>
    /\ err = "nil"
    /\ sizeSum = 0
    /\ fatal = FALSE
    /\ strBytes = 0
    /\ decoded = <<>>
    /\ loops = [expand |-> 0, readRune |-> 0, readString |-> 0]
    /\ framed = <<>>
    /\ src = <<>>
    /\ pre = Snapshot

Init == InitWith(Inputs)

InitDW == InitWith(DefineInputs)

\* a new Decoder on a buffer that holds an encoding of a well-formed string
InitRT ==
    /\ src \in Strings
    /\ input \in Encodings(src)
    /\ tail = EOF
    /\ pos = 0
    /\ window = initWindow
    /\ dynamicOffset = initialDynamicOffset
    /\ unicodeMode = FALSE
    /\ bytesRead = 0
    /\ op = "none"
    /\ r = 0
    /\ size = 0
    /\ str = <<>>
    /\ err = "nil"
    /\ sizeSum = 0
    /\ fatal = FALSE
    /\ strBytes = 0
    /\ decoded = <<>>
    /\ loops = [expand |-> 0, readRune |-> 0, readString |-> 0]
    /\ framed = <<>>
    /\ pre = Snapshot

(***************************************************************************)
(* The wire format's framing, by which the claims name the constructs a    *)
(* call consumed: how many bytes a construct beginning with byte b has in  *)
(* each mode, and the mode that follows it.                                *)
(***************************************************************************)
ConstructLen(uni, b) ==
    IF uni
    THEN IF b >= UC0 /\ b <= UC7 THEN 1
         ELSE IF b >= UD0 /\ b <= UD7 THEN 2
         ELSE IF b = UDX \/ b = UQU THEN 3
         ELSE IF b >= 216 /\ b <= 223 THEN 4
         ELSE 2
    ELSE IF (b >= SQ0 /\ b <= SQ7) \/ (b >= SD0 /\ b <= SD7) THEN 2
         ELSE IF b = SDX \/ b = SQU THEN 3
         ELSE 1

ModeAfter(uni, b) ==
    IF uni
    THEN ~((b >= UC0 /\ b <= UC7) \/ (b >= UD0 /\ b <= UD7) \/ b = UDX)
    ELSE b = SCU

\* seg cut into constructs, each with the mode it is read in; the last may be cut short
RECURSIVE Constructs(_, _)
Constructs(uni, seg) ==
    IF seg = <<>> THEN <<>>
    ELSE LET n == ConstructLen(uni, seg[1]) IN
         IF n >= Len(seg) THEN << [uni |-> uni, bytes |-> seg] >>
         ELSE << [uni |-> uni, bytes |-> SubSeq(seg, 1, n)] >>
              \o Constructs(ModeAfter(uni, seg[1]), SubSeq(seg, n + 1, Len(seg)))

\* the decoder's fields after a call that left the record d
Store(d) ==
    /\ framed' = Constructs(unicodeMode, SubSeq(input, pos + 1, d.pos))
    /\ loops' = [expand |-> d.nExpand, readRune |-> d.nReadRune,
                 readString |-> d.nReadString]
    /\ pos' = d.pos
    /\ window' = d.window
    /\ dynamicOffset' = d.dynamicOffset
    /\ unicodeMode' = d.unicodeMode
    /\ bytesRead' = d.bytesRead

IsFatal(e) == e = ErrIllegalInput \/ (e \notin {"nil", EOF, ErrUnexpectedEOF, ErrSource, Panic})

\* what ReadRune returns and leaves, x being what readRune returned
ReadRuneReturn(pr, x) ==
    /\ Store(x.d)
    /\ r' = x.r
    /\ size' = x.d.bytesRead - pr
    /\ err' = x.err
    /\ sizeSum' = sizeSum + (x.d.bytesRead - pr)
    /\ fatal' = (fatal \/ IsFatal(x.err))

\* r, size, err := d.ReadRune()
ReadRune ==
    /\ err # Panic
    /\ ReadRuneReturn(bytesRead, readRune(Dec))
    /\ op' = "ReadRune"
    /\ pre' = Snapshot
    /\ UNCHANGED <<input, tail, str, strBytes, decoded, src>>

\* what ReadString returns and leaves, x being the outcome of its loop
ReadStringReturn(x) ==
    /\ Store(x.d)
    /\ str' = x.s
    /\ err' = x.err
    /\ strBytes' = strBytes + (x.d.pos - pos)
    /\ decoded' = x.vals

\* s, err := d.ReadString()
ReadString ==
    /\ err # Panic
    /\ ReadStringReturn(readString(Dec, <<>>, <<>>))
    /\ op' = "ReadString"
    /\ pre' = Snapshot
    /\ UNCHANGED <<input, tail, r, size, sizeSum, fatal, src>>

Next == ReadRune \/ ReadString

Spec == Init /\ [][Next]_vars

\* the same decoder on the window definitions
SpecDW == InitDW /\ [][Next]_vars

\* the same decoder on the quotes
\* the same decoder on the extended definitions
SpecDX == InitWith(ExtendedInputs) /\ [][Next]_vars

SpecSQ == InitWith(QuoteInputs) /\ [][Next]_vars

\* the same decoder on the plain data bytes
SpecPD == InitWith(PlainInputs) /\ [][Next]_vars

\* the decoder reading, as one string, what the encoder produced
SpecRT == InitRT /\ [][ReadString]_vars

\* the bytes the last call took from the source, and their constructs
Seg == SubSeq(input, pre.pos + 1, pos)
Cs == framed
Last == Cs[Len(Cs)]

Truncated(c) == Len(c.bytes) < ConstructLen(c.uni, c.bytes[1])
Whole(c) == ~Truncated(c)

\* the source has given its last byte and answers io.EOF
SourceEnded == tail = EOF /\ pos = Len(input)

IllegalOffset(b) == b = 0 \/ (reservedStart <= b /\ b < fixedThreshold)

IsDefine(c) ==
    /\ Whole(c)
    /\ IF c.uni THEN c.bytes[1] >= UD0 /\ c.bytes[1] <= UD7
                ELSE c.bytes[1] >= SD0 /\ c.bytes[1] <= SD7

\* the window a definition c names
DefineIndex(c) == IF c.uni THEN c.bytes[1] - UD0 ELSE c.bytes[1] - SD0

IsSurrogateUnit(c) == Whole(c) /\ c.uni /\ c.bytes[1] >= 216 /\ c.bytes[1] <= 223
Unit1(c) == c.bytes[1] * 256 + c.bytes[2]
Unit2(c) == c.bytes[3] * 256 + c.bytes[4]
IsHigh(u) == 55296 <= u /\ u <= 56319
IsLow(u) == 56320 <= u /\ u <= 57343

IsReserved(c) == ~c.uni /\ c.bytes = <<Srs>>

\* a whole construct the protocol forbids
Malformed(c) ==
    \/ IsReserved(c)
    \/ IsDefine(c) /\ IllegalOffset(c.bytes[2])
    \/ IsSurrogateUnit(c) /\ ~(IsHigh(Unit1(c)) /\ IsLow(Unit2(c)))

\* a whole, legal construct that only changes the decoder's state
StateOnly(c) ==
    /\ Whole(c)
    /\ ~Malformed(c)
    /\ IF c.uni
       THEN (c.bytes[1] >= UC0 /\ c.bytes[1] <= UC7) \/ IsDefine(c) \/ c.bytes[1] = UDX
       ELSE \/ c.bytes[1] >= SC0 /\ c.bytes[1] <= SC7
            \/ c.bytes[1] = SCU
            \/ c.bytes[1] = SDX
            \/ IsDefine(c)

\* a whole, legal construct that yields a value
Yields(c) == Whole(c) /\ ~Malformed(c) /\ ~StateOnly(c)

IsScalar(v) == 0 <= v /\ v <= 1114111 /\ ~(55296 <= v /\ v <= 57343)

(***************************************************************************)
(* C1.  Round trip: for every well-formed sequence of scalar values s,     *)
(* ReadString on a new Decoder over the bytes the Encoder produced for s   *)
(* returns no error and exactly s.                                         *)
(***************************************************************************)
C1_RoundTrip ==
    (op = "ReadString" /\ pre.pos = 0) => (err = "nil" /\ str = src)

\* a string of a supplementary and a private-use value, decoded in one ReadString
C1_Witness ==
    /\ op = "ReadString" /\ pre.pos = 0 /\ err = "nil"
    /\ src = <<1114111, 57344>> /\ str = src /\ unicodeMode

(***************************************************************************)
(* C2.  Truncation detection: when the input ends inside a construct that  *)
(* needs trailing bytes (after its first byte, before its last), ReadRune  *)
(* and ReadString return io.ErrUnexpectedEOF, with no value: never io.EOF  *)
(* or, from ReadString, a nil error.                                       *)
(***************************************************************************)
C2_TruncationDetected ==
    (op # "none" /\ SourceEnded /\ Seg # <<>> /\ Truncated(Last)) =>
        /\ err = ErrUnexpectedEOF
        /\ op = "ReadRune" => r = 0
        /\ op = "ReadString" => str = <<>>

\* a surrogate unit in unicode mode cut after the first byte of its low unit
C2_Witness ==
    /\ op = "ReadRune" /\ SourceEnded /\ Seg # <<>> /\ Truncated(Last)
    /\ Last.uni /\ Last.bytes[1] = 216 /\ Len(Last.bytes) = 3
    /\ err = ErrUnexpectedEOF

(***************************************************************************)
(* C3.  Clean end of input: when the source is exhausted exactly at a      *)
(* construct boundary and nothing read was malformed, ReadString returns   *)
(* a nil error and one value per value-yielding construct, each scalar     *)
(* value as decoded (the empty string for an empty input); a ReadRune that *)
(* read only state-only constructs up to the end returns io.EOF.           *)
(***************************************************************************)
C3_CleanEnd ==
    /\ (op = "ReadString" /\ SourceEnded
            /\ \A i \in DOMAIN Cs : Whole(Cs[i]) /\ ~Malformed(Cs[i])) =>
          /\ err = "nil"
          /\ Len(str) = Cardinality({ i \in DOMAIN Cs : Yields(Cs[i]) })
          /\ Len(str) = Len(decoded)
          /\ \A i \in DOMAIN decoded : IsScalar(decoded[i]) => str[i] = decoded[i]
          /\ input = <<>> => str = <<>>
    /\ (op = "ReadRune" /\ SourceEnded /\ \A i \in DOMAIN Cs : StateOnly(Cs[i])) =>
          /\ err = EOF
          /\ r = 0

\* a value, then a change to unicode mode, then the end
C3_Witness ==
    /\ op = "ReadString" /\ SourceEnded /\ err = "nil"
    /\ Len(Cs) >= 2 /\ StateOnly(Last) /\ unicodeMode
    /\ str = <<65>>

(***************************************************************************)
(* C7.  Reserved byte rejection: whenever Srs is read as a command byte in *)
(* single-byte mode, the call fails there with ErrIllegalInput and yields  *)
(* no value, whatever was decoded before it and whatever the windows are.  *)
(***************************************************************************)
C7_ReservedRejected ==
    op # "none" =>
        \A i \in DOMAIN Cs :
            IsReserved(Cs[i]) =>
                /\ i = Len(Cs)
                /\ err = ErrIllegalInput
                /\ op = "ReadRune" => r = 0
                /\ op = "ReadString" => str = <<>>

\* Srs after window 7 was selected and redefined
C7_Witness ==
    /\ op = "ReadRune" /\ Len(Cs) >= 2 /\ IsReserved(Last)
    /\ window = 7 /\ dynamicOffset[7] # initialDynamicOffset[7]
    /\ err = ErrIllegalInput

(***************************************************************************)
(* C4.  Surrogate pairing in unicode mode: a high surrogate followed by a  *)
(* unit that is no low surrogate fails with ErrIllegalInput; a high        *)
(* surrogate followed by a low surrogate yields                            *)
(* 0x10000 + ((hi - 0xD800) << 10) + (lo - 0xDC00); a low surrogate with   *)
(* no high surrogate before it fails as malformed input.                   *)
(***************************************************************************)
C4_SurrogatePairing ==
    (op = "ReadRune" /\ Cs # <<>> /\ IsSurrogateUnit(Last)) =>
        LET hi == Unit1(Last)
            lo == Unit2(Last)
        IN /\ (IsHigh(hi) /\ ~IsLow(lo)) => err = ErrIllegalInput
           /\ (IsHigh(hi) /\ IsLow(lo)) =>
                  err = "nil" /\ r = 65536 + (hi - 55296) * 1024 + (lo - 56320)
           /\ IsLow(hi) => err = ErrIllegalInput

(***************************************************************************)
(* C5.  Window offset legality: a window definition (SDn, UDn) of window n *)
(* with offset byte b fails when b = 0 or reservedStart <= b <             *)
(* fixedThreshold; with any other b it succeeds and sets dynamicOffset[n]  *)
(* to b<<7 when b < gapThreshold, to (b<<7) + gapOffset when b <           *)
(* reservedStart, and to fixedOffset[b - fixedThreshold] otherwise, that   *)
(* index lying inside the 7-entry table.                                   *)
(***************************************************************************)
C5_OffsetLegality ==
    (op = "ReadRune" /\ Cs # <<>> /\ IsDefine(Last)) =>
        LET n == DefineIndex(Last)
            b == Last.bytes[2]
        IN IF b = 0 \/ (reservedStart <= b /\ b < fixedThreshold)
           THEN err \notin {"nil", EOF, ErrUnexpectedEOF, ErrSource, Panic}
           ELSE /\ err = tail
                /\ n \in 0..7
                /\ b < gapThreshold => dynamicOffset[n] = b * 128
                /\ (gapThreshold <= b /\ b < reservedStart) =>
                       dynamicOffset[n] = b * 128 + gapOffset
                /\ b >= fixedThreshold =>
                       /\ (b - fixedThreshold) \in 0..6
                       /\ dynamicOffset[n] = fixedOffset[b - fixedThreshold]

\* UD7 with the last offset byte, 0xFF: the last entry of the fixed table
C5_Witness ==
    /\ op = "ReadRune" /\ Cs # <<>> /\ IsDefine(Last) /\ Last.uni
    /\ DefineIndex(Last) = 7 /\ Last.bytes[2] = 255
    /\ dynamicOffset[7] = 65376 /\ err = EOF

(***************************************************************************)
(* C6.  Illegal window offsets are one error kind: a window definition     *)
(* whose offset byte is 0 and one whose offset byte is in                  *)
(* [reservedStart, fixedThreshold) both fail with an error that matches    *)
(* ErrIllegalInput.                                                        *)
(***************************************************************************)
C6_OneErrorKind ==
    (op = "ReadRune" /\ Cs # <<>> /\ IsDefine(Last) /\ IllegalOffset(Last.bytes[2])) =>
        err = ErrIllegalInput

(***************************************************************************)
(* C8.  Byte accounting of ReadRune: the size a ReadRune call returns is   *)
(* the number of bytes the call took from the source, state-only commands  *)
(* and failed calls included; the sizes of all ReadRune calls add up to    *)
(* the bytes read from the source (less those ReadString calls took); a    *)
(* call that returns a value returns a size of at least 1.                 *)
(***************************************************************************)
C8_ByteAccounting ==
    /\ op = "ReadRune" => size = pos - pre.pos
    /\ (op = "ReadRune" /\ err = "nil") => size >= 1
    /\ sizeSum + strBytes = pos
    /\ strBytes = 0 => sizeSum = pos

\* a second ReadRune that fails after it took a window selection and a command
C8_Witness ==
    /\ op = "ReadRune" /\ pre.pos >= 1 /\ size >= 2 /\ strBytes = 0
    /\ err \notin {"nil", EOF} /\ sizeSum = pos

(***************************************************************************)
(* C9.  The Decoder never crashes: in every state reached by decoding, the *)
(* active window index is in 0..7, there are eight dynamic offsets, and no *)
(* call has panicked on a table access out of bounds (dynamicOffset,       *)
(* staticOffset, fixedOffset, the window index of an extended descriptor). *)
(***************************************************************************)
C9_NeverCrashes ==
    /\ window \in 0..7
    /\ DOMAIN dynamicOffset = 0..7
    /\ err # Panic

\* an extended descriptor 0xFFFF was read: window 7, the highest offset
C9_Witness ==
    /\ op # "none" /\ window = 7 /\ dynamicOffset[7] = 1113984
    /\ \E i \in DOMAIN Cs : Cs[i].bytes = <<SDX, 255, 255>> \/ Cs[i].bytes = <<UDX, 255, 255>>

(***************************************************************************)
(* C10.  Decoder errors are fatal for the stream: once a ReadRune call has *)
(* returned ErrIllegalInput or an illegal-offset error, every later        *)
(* ReadRune call returns an error.                                         *)
(***************************************************************************)
C10_ErrorsAreFatal ==
    (op = "ReadRune" /\ pre.fatal) => err # "nil"

(***************************************************************************)
(* The mode protocol as the specification words it: the mode that follows  *)
(* construct c when it is read in mode c.uni.                              *)
(***************************************************************************)
IsSelect(c) ==
    IF c.uni THEN c.bytes[1] >= UC0 /\ c.bytes[1] <= UC7
             ELSE c.bytes[1] >= SC0 /\ c.bytes[1] <= SC7

\* the window a selection c names
SelectIndex(c) == IF c.uni THEN c.bytes[1] - UC0 ELSE c.bytes[1] - SC0

IsExtDefine(c) ==
    Whole(c) /\ (IF c.uni THEN c.bytes[1] = UDX ELSE c.bytes[1] = SDX)

\* the 16-bit descriptor of an extended definition c, big-endian
Descriptor(c) == c.bytes[2] * 256 + c.bytes[3]

ProtocolMode(c) ==
    IF c.uni
    THEN ~( \/ IsSelect(c)
            \/ IsDefine(c) /\ ~IllegalOffset(c.bytes[2])
            \/ IsExtDefine(c) )
    ELSE c.bytes = <<SCU>>

\* the mode after the constructs cs, read from mode uni on
ModeThrough(uni, cs) == IF cs = <<>> THEN uni ELSE ProtocolMode(cs[Len(cs)])

(***************************************************************************)
(* C11.  Mode protocol: the mode a call leaves is the mode it began in,    *)
(* changed only by the constructs it read: SCU in single-byte mode changes *)
(* to unicode mode; UCn, UDn with a legal offset and UDX in unicode mode   *)
(* change to single-byte mode; every other construct (data bytes, quotes,  *)
(* SCn, SDn, SDX, UQU, 16-bit units, and whatever fails or is cut short)   *)
(* leaves the mode as it was.                                              *)
(***************************************************************************)
C11_ModeProtocol ==
    op # "none" => unicodeMode = ModeThrough(pre.unicodeMode, Cs)

\* the same protocol for every call but one that ends in a UDn with an illegal offset
C11_ModeProtocolLegal ==
    (op # "none" /\ ~(Cs # <<>> /\ Last.uni /\ IsDefine(Last) /\ IllegalOffset(Last.bytes[2]))) =>
        unicodeMode = ModeThrough(pre.unicodeMode, Cs)

(***************************************************************************)
(* The window commands as the specification words them: a definition that  *)
(* succeeds (SDn, UDn with a legal offset byte; SDX, UDX) and a selection  *)
(* (SCn, UCn), each with the window it names.                              *)
(***************************************************************************)
Defines(c) == (IsDefine(c) /\ ~IllegalOffset(c.bytes[2])) \/ IsExtDefine(c)

WindowCommand(c) == Defines(c) \/ IsSelect(c)

TargetWindow(c) ==
    IF IsExtDefine(c) THEN Descriptor(c) \div 8192
    ELSE IF IsDefine(c) THEN DefineIndex(c)
    ELSE SelectIndex(c)

\* the windows the definitions among the constructs cs name
DefinedWindows(cs) == { TargetWindow(cs[i]) : i \in { j \in DOMAIN cs : Defines(cs[j]) } }

\* i is the last window command among the constructs cs
LastWindowCommand(cs, i) ==
    /\ WindowCommand(cs[i])
    /\ \A j \in DOMAIN cs : j > i => ~WindowCommand(cs[j])

(***************************************************************************)
(* The window state the specification derives from the constructs read:    *)
(* the active window is the one the most recent window command names, and  *)
(* a window's offset is the one its most recent definition gave it.        *)
(***************************************************************************)
\* the offset a successful definition c gives its window (section 3)
DefinitionOffset(c) ==
    IF IsExtDefine(c) THEN ((Descriptor(c) % 8192) * 128) + 65536
    ELSE offsetOf(c.bytes[2])

\* the active window after the constructs cs, w0 being active before them
RefWindow(cs, w0) ==
    IF \E i \in DOMAIN cs : LastWindowCommand(cs, i)
    THEN TargetWindow(cs[CHOOSE i \in DOMAIN cs : LastWindowCommand(cs, i)])
    ELSE w0

\* i is the last definition of window k among the constructs cs
LastDefinition(cs, k, i) ==
    /\ Defines(cs[i]) /\ TargetWindow(cs[i]) = k
    /\ \A j \in DOMAIN cs : j > i => ~(Defines(cs[j]) /\ TargetWindow(cs[j]) = k)

\* the offset of window k after the constructs cs, dyn0 being the offsets before them
RefOffset(cs, k, dyn0) ==
    IF \E i \in DOMAIN cs : LastDefinition(cs, k, i)
    THEN DefinitionOffset(cs[CHOOSE i \in DOMAIN cs : LastDefinition(cs, k, i)])
    ELSE dyn0[k]

(***************************************************************************)
(* C12.  Defining and activating are coupled, activating alone never       *)
(* redefines: after a call, the active window is the one named by the last *)
(* successful definition (SDn, UDn: n; SDX, UDX: D >> 13) or selection     *)
(* (SCn, UCn: n) the call read, and is the window of before when it read   *)
(* none; the offset of every window that no successful definition of the   *)
(* call names is the offset of before, so a selection changes none of the  *)
(* eight offsets and a definition only the offset of its own window.       *)
(***************************************************************************)
C12_DefineActivates ==
    op # "none" =>
        /\ window = RefWindow(Cs, pre.window)
        /\ \A k \in (0..7) \ DefinedWindows(Cs) : dynamicOffset[k] = pre.dynamicOffset[k]

\* SD7 with offset byte 0xFF, then a data byte decoded through window 7
C12_Witness ==
    /\ op = "ReadRune" /\ Len(Cs) = 2 /\ Cs[1].bytes = <<SD7, 255>> /\ Cs[2].bytes = <<128>>
    /\ pre.window = 0 /\ window = 7 /\ dynamicOffset[7] = 65376
    /\ \A k \in 0..6 : dynamicOffset[k] = pre.dynamicOffset[k]
    /\ err = "nil" /\ r = 65376

(***************************************************************************)
(* C13.  SQn is a one-off quote: a ReadRune that ends in SQn followed by a *)
(* byte v returns, with no error, staticOffset[n] + v when v < 0x80 and    *)
(* dynamicOffset[n] + (v - 0x80) otherwise, for every v (the values of     *)
(* command bytes included); the quote changes neither the active window    *)
(* (it stays the one of before, or the one the window commands read before *)
(* the quote made active), nor an offset, nor the mode; and a plain high   *)
(* byte read by the next call is decoded through the active window.        *)
(***************************************************************************)
IsQuote(c) == ~c.uni /\ Whole(c) /\ c.bytes[1] >= SQ0 /\ c.bytes[1] <= SQ7

C13_OneOffQuote ==
    /\ (op = "ReadRune" /\ Cs # <<>> /\ IsQuote(Last)) =>
          LET n == Last.bytes[1] - SQ0
              v == Last.bytes[2]
          IN /\ err = "nil"
             /\ v < 128 => r = staticOffset[n] + v
             /\ v >= 128 => r = dynamicOffset[n] + (v - 128)
             /\ n \notin DefinedWindows(Cs) => dynamicOffset[n] = pre.dynamicOffset[n]
             /\ Len(Cs) = 1 =>
                    /\ window = pre.window
                    /\ dynamicOffset = pre.dynamicOffset
                    /\ unicodeMode = pre.unicodeMode
             /\ \A i \in DOMAIN Cs : LastWindowCommand(Cs, i) => window = TargetWindow(Cs[i])
             /\ ~unicodeMode
    /\ (op = "ReadRune" /\ Len(Cs) = 1 /\ ~Last.uni /\ Len(Seg) = 1 /\ Seg[1] >= 128) =>
          /\ err = "nil"
          /\ r = pre.dynamicOffset[pre.window] + (Seg[1] - 128)

\* SQ3 quoting the byte 0x8F from window 3, redefined to 0x100, while window 6 is active
C13_Witness ==
    /\ op = "ReadRune" /\ Cs # <<>> /\ IsQuote(Last) /\ Len(Cs) = 3
    /\ Last.bytes = <<SQ0 + 3, 143>>
    /\ err = "nil" /\ r = 256 + 15 /\ window = 6 /\ ~unicodeMode

\* a byte that is no command in single-byte mode
DataByte(b) == b >= 32 \/ b \in {0, 9, 10, 13}

\* c is a plain data byte of single-byte mode (no quote precedes it: a quote
\* and its byte are one construct)
IsPlainData(c) == ~c.uni /\ Len(c.bytes) = 1 /\ DataByte(c.bytes[1])

\* the value the plain data byte b stands for after the constructs of the last call
PlainValue(b) ==
    IF b < 128 THEN b
    ELSE RefOffset(Cs, RefWindow(Cs, pre.window), pre.dynamicOffset) + (b - 128)

(***************************************************************************)
(* C14.  Plain data bytes in single-byte mode: a call that ends in a       *)
(* non-command byte b which follows no SQn yields, with no error, b itself *)
(* when b < 0x80, whatever window is active, and dynamicOffset[w] +        *)
(* (b - 0x80) when b >= 0x80, w being the window the most recent selection *)
(* or definition names and dynamicOffset[w] the offset its most recent     *)
(* definition gave it (else those the call began with: in the end the      *)
(* initial window 0 and the initial offsets).                              *)
(***************************************************************************)
C14_PlainData ==
    /\ (op = "ReadRune" /\ Cs # <<>> /\ IsPlainData(Last)) =>
          /\ err = "nil"
          /\ r = PlainValue(Last.bytes[1])
    /\ (op = "ReadString" /\ err = "nil" /\ Cs # <<>> /\ IsPlainData(Last)) =>
          /\ str # <<>>
          /\ str[Len(str)] = PlainValue(Last.bytes[1])
    /\ op = "none" => (window = initWindow /\ dynamicOffset = initialDynamicOffset)

\* a second ReadRune, after a quote: 0xFF decoded through window 5, which UD5
\* has just defined at 0xE000
C14_Witness ==
    /\ op = "ReadRune" /\ Cs # <<>> /\ IsPlainData(Last) /\ Last.bytes = <<255>>
    /\ pre.pos > 0 /\ pre.window = 0 /\ Len(Cs) = 3
    /\ window = 5 /\ dynamicOffset[5] = 57344
    /\ err = "nil" /\ r = 57344 + 127

(***************************************************************************)
(* C15.  Extended windows: for every 16-bit descriptor D, SDX D and UDX D  *)
(* do not fail (a call that ends in one returns only what the source       *)
(* answers at its end); D being the last window command of a call, window  *)
(* D >> 13 is active after it and its offset is ((D & 0x1FFF) << 7) +      *)
(* 0x10000; a plain data byte v >= 0x80 that follows is decoded to that    *)
(* offset + (v - 0x80), a value in [0x10000, 0x10FFFF], which is below     *)
(* 2^31: the 32-bit sum does not overflow.                                 *)
(***************************************************************************)
C15_ExtendedWindows ==
    op # "none" =>
        \A i \in DOMAIN Cs :
            (IsExtDefine(Cs[i]) /\ LastWindowCommand(Cs, i)) =>
                LET D == Descriptor(Cs[i])
                    w == D \div 8192
                    offset == ((D % 8192) * 128) + 65536
                IN /\ w \in 0..7
                   /\ window = w
                   /\ dynamicOffset[w] = offset
                   /\ i = Len(Cs) =>
                          /\ ~unicodeMode
                          /\ err = IF op = "ReadString" /\ tail = EOF THEN "nil" ELSE tail
                   /\ (op = "ReadRune" /\ i + 1 = Len(Cs) /\ IsPlainData(Last)
                          /\ Last.bytes[1] >= 128) =>
                          /\ err = "nil"
                          /\ r = offset + (Last.bytes[1] - 128)
                          /\ 65536 <= r /\ r <= 1114111

\* UDX with the descriptor 0xFFFF, then 0xFF: the last scalar value, U+10FFFF
C15_Witness ==
    /\ op = "ReadRune" /\ Len(Cs) = 3 /\ Cs[2].bytes = <<UDX, 255, 255>>
    /\ Last.bytes = <<255>> /\ window = 7 /\ dynamicOffset[7] = 1113984
    /\ err = "nil" /\ r = 1114111

(***************************************************************************)
(* C16.  Termination and progress: every call returns, a ReadRune either a *)
(* value with no error or an error with no value; each of its loops goes   *)
(* round at most once per byte the call takes from the source, and once    *)
(* more only to meet the error that ends the call, however many state-only *)
(* constructs precede the value; the source gives each byte once, and a    *)
(* ReadString that returns no error has taken the whole input.             *)
(***************************************************************************)
Consumed == pos - pre.pos

\* n iterations made progress: one byte each, but for a last one that ends in an error
Progress(n) ==
    /\ n >= 1
    /\ n <= Consumed + 1
    /\ err = "nil" => n <= Consumed

C16_Termination ==
    /\ pos <= Len(input)
    /\ bytesRead = pos
    /\ op = "ReadRune" =>
          /\ \/ err = "nil" /\ r \in 0..1114111
             \/ err # "nil" /\ r = 0
          /\ Progress(loops.expand)
          /\ Progress(loops.readRune)
          /\ loops.readString = 0
          /\ err = "nil" =>
                 /\ loops.expand = Len(Cs)
                 /\ \A i \in 1..(Len(Cs) - 1) : StateOnly(Cs[i])
    /\ op = "ReadString" =>
          /\ loops.readString >= 1
          /\ loops.readString <= Consumed + 1
          /\ loops.readRune <= Consumed + 1
          /\ loops.expand <= Consumed + 1
          /\ loops.readString <= loops.readRune /\ loops.readRune <= loops.expand
          /\ err = "nil" =>
                 /\ pos = Len(input)
                 /\ loops.readString = Len(str) + 1

\* a value after a change of mode and an extended definition: three constructs
\* of five bytes, three iterations
C16_Witness ==
    /\ op = "ReadRune" /\ err = "nil"
    /\ Len(Cs) = 3 /\ StateOnly(Cs[1]) /\ StateOnly(Cs[2])
    /\ loops.expand = 3 /\ loops.readRune = 3 /\ Consumed = 5

(***************************************************************************)
(* C17.  The sentinel -1 ('the state changed, no output yet') is never     *)
(* confused with a decoded value: the dynamic offsets are never negative,  *)
(* so no path computes -1; a ReadRune that returns a nil error returns a   *)
(* rune in [0, 0x10FFFF], never a negative one, and it is the value of the *)
(* last construct read, no value-yielding construct having been passed     *)
(* over as if it were a state change and no state-only construct having    *)
(* been returned as a value: readRune went round once more exactly for     *)
(* each construct that answers with the sentinel.                          *)
(***************************************************************************)
\* the constructs for which expandSingleByte / expandUnicode return the sentinel
ReturnsSentinel(c) == StateOnly(c) /\ (c.uni \/ c.bytes = <<SCU>>)

C17_SentinelNeverAValue ==
    /\ \A k \in 0..7 : dynamicOffset[k] >= 0 /\ dynamicOffset[k] <= 1113984
    /\ (op = "ReadRune" /\ err = "nil") =>
          /\ r # -1
          /\ r >= 0 /\ r <= 1114111
          /\ Cs # <<>> /\ Whole(Last) /\ ~StateOnly(Last)
          /\ \A i \in 1..(Len(Cs) - 1) : StateOnly(Cs[i])
          /\ loops.readRune = 1 + Cardinality({ i \in DOMAIN Cs : ReturnsSentinel(Cs[i]) })
    /\ (op = "ReadRune" /\ err # "nil") => r = 0

\* the value 0, the nearest to the sentinel, returned after two state changes
C17_Witness ==
    /\ op = "ReadRune" /\ err = "nil" /\ r = 0
    /\ Len(Cs) = 3 /\ loops.readRune = 3 /\ Last.bytes = <<0>>

(***************************************************************************)
(* C18.  ReadString agrees with ReadRune: the string ReadString returns    *)
(* with no error on a new Decoder is, value for value, the sequence of     *)
(* runes that successive ReadRune calls on another new Decoder over the    *)
(* same input return before io.EOF, the values of SQU and UQU quotes       *)
(* included.                                                               *)
(***************************************************************************)
Agrees(o) == o.err = EOF /\ o.vals = str

C18_ReadStringAgrees ==
    (op = "ReadString" /\ pre.pos = 0 /\ err = "nil") => Agrees(ReadRunes(NewDecoder, <<>>))

\* the two agree in length, and in every value that is a scalar value; a
\* surrogate that ReadRune returns is U+FFFD in the string
AgreesOnScalars(o) ==
    /\ o.err = EOF
    /\ Len(o.vals) = Len(str)
    /\ \A i \in DOMAIN str :
           str[i] = IF IsScalar(o.vals[i]) THEN o.vals[i] ELSE 65533

C18_AgreesButSurrogates ==
    (op = "ReadString" /\ pre.pos = 0 /\ err = "nil") =>
        AgreesOnScalars(ReadRunes(NewDecoder, <<>>))

(***************************************************************************)
(* C19.  A failed window definition changes no decoder state: after a call *)
(* that ends in an SDn or UDn rejected for its illegal offset byte, the    *)
(* eight dynamic offsets, the active window and the mode are those of      *)
(* before the command was read (those the constructs before it left).      *)
(***************************************************************************)
RejectedDefine(c) == IsDefine(c) /\ IllegalOffset(c.bytes[2])

\* the windows are as the constructs before the last one left them
WindowsAsBefore ==
    /\ window = RefWindow(Cs, pre.window)
    /\ \A k \in 0..7 : dynamicOffset[k] = RefOffset(Cs, k, pre.dynamicOffset)

C19_FailedDefineChangesNothing ==
    (op # "none" /\ Cs # <<>> /\ RejectedDefine(Last)) =>
        /\ err \notin {"nil", EOF}
        /\ WindowsAsBefore
        /\ unicodeMode = Last.uni

\* the same, the mode after a rejected UDn left aside
C19_FailedDefineKeepsWindows ==
    (op # "none" /\ Cs # <<>> /\ RejectedDefine(Last)) =>
        /\ err \notin {"nil", EOF}
        /\ WindowsAsBefore
        /\ ~Last.uni => ~unicodeMode

(***************************************************************************)
(* C20.  No partial output on failure: a ReadString (Decode is ReadString  *)
(* on a new Decoder over a buffer) that does not end at a clean end of     *)
(* input returns the empty string and the error that stopped it -          *)
(* io.ErrUnexpectedEOF for a truncation, ErrIllegalInput or the offset     *)
(* error for illegal input, the source's own error - whatever values it    *)
(* had decoded before; it never returns io.EOF, and it returns a nil error *)
(* only when the source ended with io.EOF.                                 *)
(***************************************************************************)
C20_NoPartialOutput ==
    op = "ReadString" =>
        /\ err # EOF
        /\ err # "nil" => str = <<>>
        /\ err = "nil" => (tail = EOF /\ pos = Len(input) /\ Len(str) = Len(decoded))
        /\ (Cs # <<>> /\ Truncated(Last) /\ tail = EOF) => err = ErrUnexpectedEOF
        /\ (Cs # <<>> /\ IsReserved(Last)) => err = ErrIllegalInput
        /\ (Cs # <<>> /\ RejectedDefine(Last)) =>
               err = IF Last.bytes[2] = 0 THEN ErrIllegalInput ELSE errOffset(Last.bytes[2])
        /\ (Cs # <<>> /\ IsSurrogateUnit(Last) /\ ~IsSurrogate(Unit2(Last))) =>
               err = ErrIllegalInput
        /\ (tail = ErrSource /\ \A i \in DOMAIN Cs : Whole(Cs[i]) /\ ~Malformed(Cs[i])) =>
               err = ErrSource

\* Decode of a value followed by a truncated quote: the value is discarded
C20_Witness ==
    /\ op = "ReadString" /\ pre.pos = 0 /\ tail = EOF
    /\ decoded = <<65>> /\ Truncated(Last)
    /\ err = ErrUnexpectedEOF /\ str = <<>>

====
